---- MODULE Spec2Model ----
(***************************************************************************)
(* A model of src/main.rs of x-rust, a modal terminal text editor:         *)
(*   - GapLine, the gap buffer holding one line of text;                   *)
(*   - XLine, Buf and BufList, the lines, buffers and buffer registry;     *)
(*   - Mode and the EditorCommand implementations, the keymap dispatch;    *)
(*   - Editor, the read/dispatch loop and the cursor/viewport arithmetic.  *)
(* Indices (gap_start, gap_end, current_idx, start_line, cursor) keep the  *)
(* 0-based values of the Rust code; TLA+ sequences are 1-based, so a cell  *)
(* buf[i] of the code is buf[i + 1] here.                                  *)
(***************************************************************************)
EXTENDS Integers, Sequences, FiniteSets, TLC

VARIABLES
    pc,            \* position of the process: main, then Editor::run's loop
    editor,        \* struct Editor (the fields the commands read and write)
    cmd_str,       \* Editor::run's local cmd_str, the symbol read last
    input,         \* the path handed to Buf::from_path last (args[1] or the prompt's answer)
    last_buf,      \* history: the Buf handed to BufList::new / BufList::append last
    lpc,           \* line store harness: the call made last, "none" before construction
    gl,            \* struct GapLine under test
    text,          \* history: the characters inserted into gl, in insertion order
    cap0,          \* history: gl's capacity right after construction
    requested,     \* history: the initial_capacity GapLine::new was called with
    expands        \* history: how many times GapLine::expand ran on gl

vars == <<pc, editor, cmd_str, input, last_buf, lpc, gl, text, cap0, requested, expands>>
editor_vars == <<pc, editor, cmd_str, input, last_buf>>
line_vars == <<lpc, gl, text, cap0, requested, expands>>

----------------------------------------------------------------------------
(* Bounds of the model *)

MaxCapacity == 3       \* GapLine::new is called with 0..MaxCapacity
MaxInserts == 5        \* at most this many characters are inserted into gl
MaxStrLen == 3         \* GapLine::from_str is called with strings up to this length
MaxLines == 3          \* line count of the longest file of the modelled file system
MaxScreenHeight == 5   \* terminal heights 2..MaxScreenHeight
MaxBuffers == 2        \* OpenFile stops succeeding at this many buffers

----------------------------------------------------------------------------
(* Characters.  A char is a string naming it; NUL is the placeholder '\0', *)
(* U00E9 a scalar value whose UTF-8 encoding takes two bytes.              *)

NUL == "NUL"
Chars == {"a", "b", "U00E9", NUL}

len_utf8(ch) == IF ch = "U00E9" THEN 2 ELSE 1

RECURSIVE str_len(_)
\* str::len: the length of s in bytes
str_len(s) == IF s = <<>> THEN 0 ELSE len_utf8(Head(s)) + str_len(Tail(s))

Strings(n) == UNION {[1..k -> Chars] : k \in 0..n}

saturating_sub(a, b) == IF a > b THEN a - b ELSE 0
Max(a, b) == IF a >= b THEN a ELSE b
Min(a, b) == IF a <= b THEN a ELSE b

----------------------------------------------------------------------------
(* GapLine *)

DEFAULT_GAP_SIZE == 16

GapLine_new_at_least_default(initial_capacity) ==
    LET capacity == IF initial_capacity < DEFAULT_GAP_SIZE THEN DEFAULT_GAP_SIZE
                    ELSE initial_capacity
    IN  [buf |-> [i \in 1..capacity |-> NUL], gap_start |-> 0, gap_end |-> capacity]

GapLine_new(initial_capacity) ==
    LET capacity == IF initial_capacity = 0 THEN DEFAULT_GAP_SIZE
                    ELSE initial_capacity
    IN  [buf |-> [i \in 1..capacity |-> NUL], gap_start |-> 0, gap_end |-> capacity]

expand_keeps_gap_end(g) ==
    LET old_size == Len(g.buf)
        new_size == IF old_size = 0 THEN DEFAULT_GAP_SIZE ELSE old_size * 2
        old_tail_len == old_size - g.gap_end
        new_tail_start == new_size - old_tail_len
    IN  [buf |-> [i \in 1..new_size |->
                    IF i <= g.gap_start THEN g.buf[i]
                    ELSE IF i > new_tail_start THEN g.buf[g.gap_end + (i - new_tail_start)]
                    ELSE NUL],
         gap_start |-> g.gap_start,
         gap_end |-> g.gap_end]

expand_drops_head(g) ==
    LET old_size == Len(g.buf)
        new_size == IF old_size = 0 THEN DEFAULT_GAP_SIZE ELSE old_size * 2
        old_tail_len == old_size - g.gap_end
        new_tail_start == new_size - old_tail_len
    IN  [buf |-> [i \in 1..new_size |->
                    IF i > new_tail_start THEN g.buf[g.gap_end + (i - new_tail_start)]
                    ELSE NUL],
         gap_start |-> g.gap_start,
         gap_end |-> new_tail_start]

expand(g) ==
    LET old_size == Len(g.buf)
        new_size == IF old_size = 0 THEN DEFAULT_GAP_SIZE ELSE old_size * 2
        old_tail_len == old_size - g.gap_end
        new_tail_start == new_size - old_tail_len
    IN  [buf |-> [i \in 1..new_size |->
                    IF i <= g.gap_start THEN g.buf[i]
                    ELSE IF i > new_tail_start THEN g.buf[g.gap_end + (i - new_tail_start)]
                    ELSE NUL],
         gap_start |-> g.gap_start,
         gap_end |-> new_tail_start]

needs_expand_when_gap_empty(g) == g.gap_start >= g.gap_end

\* the condition under which insert_char calls expand
needs_expand(g) == g.gap_start + 1 >= g.gap_end

insert_char(g, ch) ==
    LET e == IF needs_expand(g) THEN expand(g) ELSE g
    IN  [e EXCEPT !.buf[e.gap_start + 1] = ch, !.gap_start = e.gap_start + 1]

RECURSIVE insert_all(_, _)
\* the loop of from_str: insert_char for every char of s, in order
insert_all(g, s) ==
    IF s = <<>> THEN g ELSE insert_all(insert_char(g, Head(s)), Tail(s))

from_str(s) == insert_all(GapLine_new(str_len(s) + DEFAULT_GAP_SIZE), s)

RECURSIVE count_expands(_, _)
\* how many of the insert_char calls of insert_all(g, s) call expand
count_expands(g, s) ==
    IF s = <<>> THEN 0
    ELSE (IF needs_expand(g) THEN 1 ELSE 0) + count_expands(insert_char(g, Head(s)), Tail(s))

to_string_through_gap(g) ==
    SubSeq(g.buf, 1, g.gap_end) \o SubSeq(g.buf, g.gap_end + 1, Len(g.buf))

to_string(g) ==
    SubSeq(g.buf, 1, g.gap_start) \o SubSeq(g.buf, g.gap_end + 1, Len(g.buf))

len(g) == g.gap_start + (Len(g.buf) - g.gap_end)

----------------------------------------------------------------------------
(* The line store harness: one GapLine is constructed by new or from_str   *)
(* and characters are then inserted into it.  lpc names the call made      *)
(* last: "none", "new", "from_str" or "insert_char".                       *)

NoLine == [buf |-> <<>>, gap_start |-> 0, gap_end |-> 0]

InitLine ==
    /\ lpc = "none"
    /\ gl = NoLine
    /\ text = <<>>
    /\ cap0 = 0
    /\ requested = 0
    /\ expands = 0

LineNew(c) ==
    /\ lpc = "none"
    /\ gl' = GapLine_new(c)
    /\ cap0' = Len(gl'.buf)
    /\ requested' = c
    /\ text' = <<>>
    /\ expands' = 0
    /\ lpc' = "new"
    /\ UNCHANGED editor_vars

LineFromStr(s) ==
    /\ lpc = "none"
    /\ gl' = from_str(s)
    /\ cap0' = str_len(s) + DEFAULT_GAP_SIZE
    /\ requested' = str_len(s) + DEFAULT_GAP_SIZE
    /\ text' = s
    /\ expands' = count_expands(GapLine_new(str_len(s) + DEFAULT_GAP_SIZE), s)
    /\ lpc' = "from_str"
    /\ UNCHANGED editor_vars

LineInsert(ch) ==
    /\ lpc # "none"
    /\ Len(text) < MaxInserts
    /\ gl' = insert_char(gl, ch)
    /\ text' = Append(text, ch)
    /\ expands' = IF needs_expand(gl) THEN expands + 1 ELSE expands
    /\ lpc' = "insert_char"
    /\ UNCHANGED <<cap0, requested>>
    /\ UNCHANGED editor_vars

NextLine ==
    \/ \E c \in 0..MaxCapacity : LineNew(c)
    \/ \E s \in Strings(MaxStrLen) : LineFromStr(s)
    \/ \E ch \in Chars : LineInsert(ch)

----------------------------------------------------------------------------
(* XLine, Buf, BufList *)

XLine_new(line_number, data) ==
    [line_number |-> line_number, data |-> data, gap_data |-> from_str(data)]

\* XLine::size: data.chars().count()
size(l) == Len(l.data)

\* The file system File::open and BufReader::lines read: a path that does
\* not exist, one that cannot be opened, an empty file and a file of
\* MaxLines lines of lengths 1, 2, 0, 1, 2, 0, ...
Paths == {"missing", "locked", "empty.txt", "long.txt"}

line_of_len(n) == [j \in 1..n |-> IF j % 2 = 1 THEN "a" ELSE "U00E9"]

File_lines(path) ==
    CASE path = "empty.txt" -> <<>>
      [] path = "long.txt" -> [i \in 1..MaxLines |-> line_of_len(i % 3)]

File_open(path) ==
    CASE path = "missing" -> "NotFound"
      [] path = "locked" -> "PermissionDenied"
      [] OTHER -> "Ok"

\* Buf::from_path: io::Result<Buf>, as [kind |-> "Ok", buf |-> Buf] or
\* [kind |-> the io::ErrorKind]
Buf_from_path(path) ==
    IF File_open(path) # "Ok" THEN [kind |-> File_open(path)]
    ELSE [kind |-> "Ok",
          buf |-> [file_path |-> path,
                   buffer_name |-> path,
                   lines |-> [i \in 1..Len(File_lines(path)) |->
                                XLine_new(i - 1, File_lines(path)[i])],
                   modified |-> FALSE]]

BufList_new(first_buffer) == [buffers |-> <<first_buffer>>, current_idx |-> 0]

append_keeps_current(bl, buffer) ==
    [buffers |-> Append(bl.buffers, buffer), current_idx |-> bl.current_idx]

append(bl, buffer) ==
    [buffers |-> Append(bl.buffers, buffer), current_idx |-> Len(bl.buffers) + 1 - 1]

get_current_buffer(bl) == bl.buffers[bl.current_idx + 1]

----------------------------------------------------------------------------
(* Mode and the keymaps of Editor::new *)

Quit == [cmd |-> "Quit"]
MovePoint(dy, dx) == [cmd |-> "MovePoint", dy |-> dy, dx |-> dx]
MoveToLineEdge(to_end) == [cmd |-> "MoveToLineEdge", to_end |-> to_end]
MoveToFileEdge(to_end) == [cmd |-> "MoveToFileEdge", to_end |-> to_end]
MovePage(increment) == [cmd |-> "MovePage", increment |-> increment]
ToggleLineNumbers == [cmd |-> "ToggleLineNumbers"]
OpenFile == [cmd |-> "OpenFile"]
Search == [cmd |-> "Search"]

\* Option::None of Mode::lookup
None == [cmd |-> "None"]

Mode_new(name) == [name |-> name, keymap |-> <<>>]

add_command_one_key(m, keys, command) ==
    LET first == CHOOSE k \in keys : TRUE
    IN  [m EXCEPT !.keymap = [k \in (DOMAIN m.keymap) \cup {first} |->
                                IF k = first THEN command ELSE m.keymap[k]]]

add_command(m, keys, command) ==
    [m EXCEPT !.keymap = [k \in (DOMAIN m.keymap) \cup keys |->
                            IF k \in keys THEN command ELSE m.keymap[k]]]

lookup(m, cmd) == IF cmd \in DOMAIN m.keymap THEN m.keymap[cmd] ELSE None

cmd_mode ==
    LET m0 == Mode_new("CMD")
        m1 == add_command(m0, {"q"}, Quit)
        m2 == add_command(m1, {"j", "KEY_DOWN"}, MovePoint(1, 0))
        m3 == add_command(m2, {"k", "KEY_UP"}, MovePoint(-1, 0))
        m4 == add_command(m3, {"l", "KEY_RIGHT"}, MovePoint(0, 1))
        m5 == add_command(m4, {"h", "KEY_LEFT"}, MovePoint(0, -1))
        m6 == add_command(m5, {"^", "0", "KEY_HOME"}, MoveToLineEdge(FALSE))
        m7 == add_command(m6, {"$", "KEY_END"}, MoveToLineEdge(TRUE))
        m8 == add_command(m7, {"G"}, MoveToFileEdge(TRUE))
        m9 == add_command(m8, {" ", "KEY_NPAGE"}, MovePage(1))
        m10 == add_command(m9, {"KEY_PPAGE"}, MovePage(-1))
        m11 == add_command(m10, {"."}, ToggleLineNumbers)
        m12 == add_command(m11, {"o"}, OpenFile)
    IN  add_command(m12, {"/"}, Search)

insert_mode == Mode_new("INSERT")

search_mode_binds_quit == add_command(Mode_new("SEARCH"), {"q"}, Quit)

search_mode == Mode_new("SEARCH")

\* Editor::modes, indexed by EditorMode
modes(mode) ==
    CASE mode = "Command" -> cmd_mode
      [] mode = "Insert" -> insert_mode
      [] mode = "Search" -> search_mode

\* the symbols parse_cmd returns: the bound ones and two bound to nothing
Symbols == (DOMAIN cmd_mode.keymap) \cup {"x", "KEY_F(1)"}

----------------------------------------------------------------------------
(* Editor *)

MODE_PADDING == 1

\* Editor::new.  screen_height is what getmaxyx reports; the ncurses calls
\* and the two windows are the display collaborator and carry no state the
\* commands read, except the buffer window's height.
Editor_new(initial_buffer, screen_height) ==
    [mode |-> "Command",
     screen_height |-> screen_height,
     buffers |-> BufList_new(initial_buffer),
     redisplay |-> TRUE,
     quit |-> FALSE,
     cursor |-> <<0, 0>>,
     start_line |-> 0,
     line_number_show |-> FALSE]

\* buffer_window.get_height(): the window was created with
\* screen_height - MODE_PADDING lines
get_height(ed) == ed.screen_height - MODE_PADDING

mark_redisplay(ed) == [ed EXCEPT !.redisplay = TRUE]

\* mode_read_input: the prompt's answer is an input of the caller; the
\* editor is left with the redisplay flag set
mode_read_input(ed) == mark_redisplay(ed)

get_current_line_idx(ed) == ed.start_line + ed.cursor[1]

get_current_line_len(ed) ==
    LET lines == get_current_buffer(ed.buffers).lines
        idx == get_current_line_idx(ed)
    IN  IF idx < Len(lines) THEN size(lines[idx + 1]) ELSE 0

move_point_stale_line_len(ed, dy, dx) ==
    LET num_lines == Len(get_current_buffer(ed.buffers).lines)
        window_height == get_height(ed)
        y0 == Min(Max(ed.cursor[1] + dy, 0), window_height - 1)
        potential_line_idx == ed.start_line + y0
        y1 == IF potential_line_idx >= num_lines
              THEN saturating_sub(saturating_sub(num_lines, 1), ed.start_line)
              ELSE y0
        line_len == get_current_line_len(ed)
        new_x == Min(Max(ed.cursor[2] + dx, 0), line_len)
    IN  [ed EXCEPT !.cursor[1] = Max(y1, 0), !.cursor[2] = new_x]

move_point_file_only(ed, dy, dx) ==
    LET num_lines == Len(get_current_buffer(ed.buffers).lines)
        y0 == Max(ed.cursor[1] + dy, 0)
        potential_line_idx == ed.start_line + y0
        y1 == IF potential_line_idx >= num_lines
              THEN saturating_sub(saturating_sub(num_lines, 1), ed.start_line)
              ELSE y0
        ed1 == [ed EXCEPT !.cursor[1] = Max(y1, 0)]
        line_len == get_current_line_len(ed1)
        new_x == Min(Max(ed1.cursor[2] + dx, 0), line_len)
    IN  [ed1 EXCEPT !.cursor[2] = new_x]

move_point_window_only(ed, dy, dx) ==
    LET window_height == get_height(ed)
        y0 == Min(Max(ed.cursor[1] + dy, 0), window_height - 1)
        ed1 == [ed EXCEPT !.cursor[1] = Max(y0, 0)]
        line_len == get_current_line_len(ed1)
        new_x == Min(Max(ed1.cursor[2] + dx, 0), line_len)
    IN  [ed1 EXCEPT !.cursor[2] = new_x]

move_point(ed, dy, dx) ==
    LET num_lines == Len(get_current_buffer(ed.buffers).lines)
        window_height == get_height(ed)
        y0 == Min(Max(ed.cursor[1] + dy, 0), window_height - 1)
        potential_line_idx == ed.start_line + y0
        y1 == IF potential_line_idx >= num_lines
              THEN saturating_sub(saturating_sub(num_lines, 1), ed.start_line)
              ELSE y0
        ed1 == [ed EXCEPT !.cursor[1] = Max(y1, 0)]
        line_len == get_current_line_len(ed1)
        new_x == Min(Max(ed1.cursor[2] + dx, 0), line_len)
    IN  [ed1 EXCEPT !.cursor[2] = new_x]

move_to_line_edge(ed, to_end) ==
    IF to_end THEN [ed EXCEPT !.cursor[2] = get_current_line_len(ed)]
    ELSE [ed EXCEPT !.cursor[2] = 0]

move_to_file_edge_top_row(ed, to_end) ==
    LET num_lines == Len(get_current_buffer(ed.buffers).lines)
        window_height == get_height(ed)
        start == Max(saturating_sub(num_lines, window_height), 0)
        moved == IF to_end
                 THEN [ed EXCEPT !.start_line = start, !.cursor[1] = 0]
                 ELSE [ed EXCEPT !.start_line = 0, !.cursor[1] = 0]
    IN  mark_redisplay(moved)

move_to_file_edge(ed, to_end) ==
    LET num_lines == Len(get_current_buffer(ed.buffers).lines)
        window_height == get_height(ed)
        start == Max(saturating_sub(num_lines, window_height), 0)
        moved == IF to_end
                 THEN [ed EXCEPT !.start_line = start,
                                 !.cursor[1] = saturating_sub(saturating_sub(num_lines, 1), start)]
                 ELSE [ed EXCEPT !.start_line = 0, !.cursor[1] = 0]
    IN  mark_redisplay(moved)

move_page_to_line_count(ed, increment) ==
    LET num_lines == Len(get_current_buffer(ed.buffers).lines)
        page_size == get_height(ed)
        new_start_line == IF increment > 0
                          THEN Min(ed.start_line + page_size, num_lines)
                          ELSE saturating_sub(ed.start_line, page_size)
    IN  mark_redisplay([ed EXCEPT !.start_line = new_start_line])

move_page(ed, increment) ==
    LET num_lines == Len(get_current_buffer(ed.buffers).lines)
        page_size == get_height(ed)
        new_start_line == IF increment > 0
                          THEN Min(ed.start_line + page_size, saturating_sub(num_lines, 1))
                          ELSE saturating_sub(ed.start_line, page_size)
    IN  mark_redisplay([ed EXCEPT !.start_line = new_start_line])

open_file_drops_buffer(ed, answer) ==
    mark_redisplay(mode_read_input(ed))

\* OpenFile::execute, answer being what the "File: " prompt returned
open_file(ed, answer) ==
    LET prompted == mode_read_input(ed)
        loaded == Buf_from_path(answer)
        opened == IF loaded.kind = "Ok"
                  THEN mark_redisplay([prompted EXCEPT !.buffers = append(@, loaded.buf)])
                  ELSE prompted
    IN  mark_redisplay(opened)

execute_search_enters_insert(command, ed, answer) ==
    CASE command.cmd = "Quit" ->
           [ed |-> [ed EXCEPT !.quit = TRUE], next_mode |-> ed.mode]
      [] command.cmd = "MovePoint" ->
           [ed |-> move_point(ed, command.dy, command.dx), next_mode |-> ed.mode]
      [] command.cmd = "MoveToLineEdge" ->
           [ed |-> move_to_line_edge(ed, command.to_end), next_mode |-> ed.mode]
      [] command.cmd = "MoveToFileEdge" ->
           [ed |-> move_to_file_edge(ed, command.to_end), next_mode |-> ed.mode]
      [] command.cmd = "MovePage" ->
           [ed |-> move_page(ed, command.increment), next_mode |-> ed.mode]
      [] command.cmd = "ToggleLineNumbers" ->
           [ed |-> mark_redisplay([ed EXCEPT !.line_number_show = ~@]),
            next_mode |-> ed.mode]
      [] command.cmd = "OpenFile" ->
           [ed |-> open_file(ed, answer), next_mode |-> "Command"]
      [] command.cmd = "Search" ->
           [ed |-> mark_redisplay(mode_read_input(ed)), next_mode |-> "Insert"]

\* EditorCommand::execute of each command: the editor afterwards and the
\* mode returned
execute(command, ed, answer) ==
    CASE command.cmd = "Quit" ->
           [ed |-> [ed EXCEPT !.quit = TRUE], next_mode |-> ed.mode]
      [] command.cmd = "MovePoint" ->
           [ed |-> move_point(ed, command.dy, command.dx), next_mode |-> ed.mode]
      [] command.cmd = "MoveToLineEdge" ->
           [ed |-> move_to_line_edge(ed, command.to_end), next_mode |-> ed.mode]
      [] command.cmd = "MoveToFileEdge" ->
           [ed |-> move_to_file_edge(ed, command.to_end), next_mode |-> ed.mode]
      [] command.cmd = "MovePage" ->
           [ed |-> move_page(ed, command.increment), next_mode |-> ed.mode]
      [] command.cmd = "ToggleLineNumbers" ->
           [ed |-> mark_redisplay([ed EXCEPT !.line_number_show = ~@]),
            next_mode |-> ed.mode]
      [] command.cmd = "OpenFile" ->
           [ed |-> open_file(ed, answer), next_mode |-> "Command"]
      [] command.cmd = "Search" ->
           [ed |-> mark_redisplay(mode_read_input(ed)), next_mode |-> "Search"]

run_cmd_keeps_mode(ed, cmd, answer) ==
    LET command == lookup(modes(ed.mode), cmd)
    IN  IF command = None THEN ed
        ELSE execute(command, ed, answer).ed

run_cmd_always_redraws(ed, cmd, answer) ==
    LET command == lookup(modes(ed.mode), cmd)
    IN  IF command = None THEN mark_redisplay(ed)
        ELSE LET r == execute(command, ed, answer)
             IN  IF r.ed.mode # r.next_mode
                 THEN mark_redisplay([r.ed EXCEPT !.mode = r.next_mode])
                 ELSE r.ed

run_cmd(ed, cmd, answer) ==
    LET command == lookup(modes(ed.mode), cmd)
    IN  IF command = None THEN ed
        ELSE LET r == execute(command, ed, answer)
             IN  IF r.ed.mode # r.next_mode
                 THEN mark_redisplay([r.ed EXCEPT !.mode = r.next_mode])
                 ELSE r.ed

----------------------------------------------------------------------------
(* The process: main, then Editor::run *)

NoBuf == [file_path |-> "", buffer_name |-> "", lines |-> <<>>, modified |-> FALSE]

\* the editor before Editor::new has run: no buffer yet
NoEditor == [Editor_new(NoBuf, 0) EXCEPT !.buffers.buffers = <<>>, !.redisplay = FALSE]

ScreenHeights == 2..MaxScreenHeight

InitEditor ==
    /\ pc = "main"
    /\ editor = NoEditor
    /\ cmd_str = ""
    /\ input = ""
    /\ last_buf = NoBuf

Init == InitEditor /\ InitLine

\* the Buf main builds when the file does not exist
empty_buffer(path) ==
    [file_path |-> path, buffer_name |-> path,
     lines |-> <<XLine_new(0, <<>>)>>, modified |-> FALSE]

\* main, from the load of args[1] to the call of editor.run()
Main ==
    /\ pc = "main"
    /\ \E path \in Paths, screen_height \in ScreenHeights :
          LET loaded == Buf_from_path(path)
              initial_buffer == IF loaded.kind = "Ok" THEN loaded.buf
                                ELSE empty_buffer(path)
          IN  /\ input' = path
              /\ IF loaded.kind \in {"Ok", "NotFound"}
                 THEN /\ editor' = Editor_new(initial_buffer, screen_height)
                      /\ last_buf' = initial_buffer
                      /\ pc' = "top"
                 ELSE /\ pc' = "exit"
                      /\ UNCHANGED <<editor, last_buf>>
    /\ UNCHANGED cmd_str
    /\ UNCHANGED line_vars

LoopTop_ignores_quit ==
    /\ pc = "top"
    /\ editor' = [editor EXCEPT !.redisplay = FALSE]
    /\ pc' = "read"
    /\ cmd_str' = ""
    /\ UNCHANGED <<input, last_buf>>
    /\ UNCHANGED line_vars

LoopTop_keeps_redisplay ==
    /\ pc = "top"
    /\ IF editor.quit THEN pc' = "done" ELSE pc' = "read"
    /\ cmd_str' = ""
    /\ UNCHANGED <<editor, input, last_buf>>
    /\ UNCHANGED line_vars

\* Editor::run, from the loop's test to the blocking read of parse_cmd.
\* The cmd_str of the iteration before went out of scope with its body.
LoopTop ==
    /\ pc = "top"
    /\ IF editor.quit
       THEN pc' = "done" /\ UNCHANGED editor
       ELSE /\ editor' = [editor EXCEPT !.redisplay = FALSE]
            /\ pc' = "read"
    /\ cmd_str' = ""
    /\ UNCHANGED <<input, last_buf>>
    /\ UNCHANGED line_vars

\* parse_cmd returns the next symbol
ParseCmd ==
    /\ pc = "read"
    /\ cmd_str' \in Symbols
    /\ pc' = "run"
    /\ UNCHANGED <<editor, input, last_buf>>
    /\ UNCHANGED line_vars

\* the command cmd_str resolves to in the active mode
resolved == lookup(modes(editor.mode), cmd_str)

\* what the user may type at the prompt of mode_read_input, "" where the
\* command shows no prompt or its answer is not used
Answers == IF resolved.cmd = "OpenFile" THEN Paths ELSE {""}

\* run_cmd(&cmd_str); answer is what the user types at a prompt
RunCmd ==
    /\ pc = "run"
    /\ \E answer \in Answers :
          LET loaded == Buf_from_path(answer)
              appends == resolved.cmd = "OpenFile" /\ loaded.kind = "Ok"
          IN  /\ appends => Len(editor.buffers.buffers) < MaxBuffers
              /\ editor' = run_cmd(editor, cmd_str, answer)
              /\ input' = IF resolved.cmd = "OpenFile" THEN answer ELSE input
              /\ last_buf' = IF appends THEN loaded.buf ELSE last_buf
    /\ pc' = "top"
    /\ UNCHANGED cmd_str
    /\ UNCHANGED line_vars

Next == Main \/ LoopTop \/ ParseCmd \/ RunCmd

Spec == Init /\ [][Next]_vars

\* Spec with the progress of a sequential program: once run_cmd has
\* returned, the loop's test is evaluated
SpecFair == Spec /\ WF_vars(LoopTop)

SpecLine == Init /\ [][NextLine]_vars

\* the symbols bound to MovePoint
MoveSymbols == {"j", "KEY_DOWN", "k", "KEY_UP", "l", "KEY_RIGHT", "h", "KEY_LEFT"}

\* parse_cmd when the user types cursor movements only
ParseMoveCmd ==
    /\ pc = "read"
    /\ cmd_str' \in MoveSymbols
    /\ pc' = "run"
    /\ UNCHANGED <<editor, input, last_buf>>
    /\ UNCHANGED line_vars

NextMove == Main \/ LoopTop \/ ParseMoveCmd \/ RunCmd

SpecMove == Init /\ [][NextMove]_vars

----------------------------------------------------------------------------
(* Properties of the line store, checked under SpecLine *)

Range(s) == {s[i] : i \in DOMAIN s}

\* C1  Round trip: the GapLine that from_str(s) returns renders, by
\* to_string, exactly s (the same characters in the same order), for every
\* string s without the placeholder character.
C1_RoundTrip ==
    (lpc = "from_str" /\ NUL \notin Range(text)) => to_string(gl) = text

\* C1 witness: from_str has returned for a string of the longest length
\* tried, holding a two-byte character, and the rendering is that string.
C1_Witness ==
    /\ lpc = "from_str"
    /\ Len(text) = MaxStrLen
    /\ "U00E9" \in Range(text)
    /\ NUL \notin Range(text)
    /\ to_string(gl) = text

\* C2  Growth: once more characters have been inserted than the initial
\* capacity (at least 1), expand has run at least once and the capacity has
\* grown, len() is the number of characters inserted and to_string() is the
\* inserted characters in insertion order.
C2_Growth ==
    (lpc # "none" /\ cap0 >= 1 /\ Len(text) > cap0) =>
        /\ expands >= 1
        /\ Len(gl.buf) >= 2 * cap0
        /\ len(gl) = Len(text)
        /\ to_string(gl) = text

\* C2 witness: a line of initial capacity 2 after two doublings, holding
\* more characters than its initial capacity.
C2_Witness ==
    /\ lpc = "insert_char"
    /\ cap0 = 2
    /\ Len(text) > cap0
    /\ expands = 2
    /\ Len(gl.buf) = 8
    /\ to_string(gl) = text

\* C3  In every state of a line store, after construction and after any
\* insert_char (those that call expand too),
\* 0 <= gap_start <= gap_end <= capacity.
C3_GapBounds ==
    lpc # "none" =>
        /\ 0 <= gl.gap_start
        /\ gl.gap_start <= gl.gap_end
        /\ gl.gap_end <= Len(gl.buf)

\* C3 witness: a line that has been expanded and holds characters, with
\* the bounds in order.
C3_Witness ==
    /\ lpc = "insert_char"
    /\ expands >= 1
    /\ 0 < gl.gap_start
    /\ gl.gap_start < gl.gap_end
    /\ gl.gap_end = Len(gl.buf)

\* C21  For a line store constructed with capacity >= 1, in every state
\* after construction the gap is not empty (gap_start < gap_end), the
\* after-region is empty (gap_end = capacity) and len() equals gap_start;
\* and every insert_char writes its character into a cell of the gap, inside
\* the array: the cell index is below gap_end and below the capacity at the
\* time of the write, the cells stored before are unchanged and the new
\* character is the cell that follows them.
C21_GapNeverEmpty ==
    /\ []((lpc # "none" /\ requested >= 1) =>
            /\ gl.gap_start < gl.gap_end
            /\ gl.gap_end = Len(gl.buf)
            /\ len(gl) = gl.gap_start)
    /\ [][(lpc # "none" /\ requested >= 1 /\ lpc' = "insert_char") =>
            LET e == IF needs_expand(gl) THEN expand(gl) ELSE gl
                w == e.gap_start
            IN  /\ w < e.gap_end
                /\ w < Len(e.buf)
                /\ gl'.gap_start = w + 1
                /\ SubSeq(gl'.buf, 1, w) = SubSeq(gl.buf, 1, gl.gap_start)
                /\ gl'.buf[w + 1] = text'[Len(text')]
                /\ to_string(gl') = Append(to_string(gl), text'[Len(text')])]_vars

\* C21 witness: a line constructed with capacity 1 has taken four
\* characters through three doublings; the gap still has free cells and
\* ends at the capacity, and len() is gap_start.
C21_Witness ==
    /\ lpc = "insert_char"
    /\ requested = 1
    /\ expands = 3
    /\ Len(gl.buf) = 8
    /\ gl.gap_start = 4
    /\ gl.gap_end = 8
    /\ len(gl) = 4

----------------------------------------------------------------------------
(* Properties of the editor, checked under Spec (C5 under SpecMove) *)

\* Editor::new has run
constructed == pc \in {"top", "read", "run", "done"}

current_lines == get_current_buffer(editor.buffers).lines
line_count == Len(current_lines)
viewport_start == editor.start_line
row == editor.cursor[1]
window_height == get_height(editor)

\* C4  Registry invariant: after construction and after any sequence of
\* appends the registry is not empty, current_idx addresses an existing
\* Buf, and the current Buf is the one appended last (the initial one if
\* none was appended).
C4_Registry ==
    constructed =>
        /\ Len(editor.buffers.buffers) >= 1
        /\ 0 <= editor.buffers.current_idx
        /\ editor.buffers.current_idx < Len(editor.buffers.buffers)
        /\ get_current_buffer(editor.buffers) = last_buf

\* C4 witness: OpenFile has appended a second Buf that differs from the
\* first, and it is the current one.
C4_Witness ==
    /\ pc = "top"
    /\ cmd_str = "o"
    /\ Len(editor.buffers.buffers) = 2
    /\ editor.buffers.buffers[1] # editor.buffers.buffers[2]
    /\ get_current_buffer(editor.buffers) = editor.buffers.buffers[2]
    /\ last_buf = editor.buffers.buffers[2]

\* C5  Cursor clamp at file end: in a buffer of at least one line, from
\* row 0 and viewport_start 0, no sequence of move_point calls takes the
\* addressed line viewport_start + row past the last line index.
C5_CursorClamp ==
    (constructed /\ line_count >= 1) => viewport_start + row <= line_count - 1

\* C5 witness: the file is one line long in a window of three rows and "j"
\* (move_point(1, 0)) was dispatched: the row stays on line index 0.
C5_Witness ==
    /\ pc = "top"
    /\ cmd_str = "j"
    /\ line_count = 1
    /\ window_height = 3
    /\ viewport_start = 0
    /\ row = 0

\* C6 as stated: a dispatched MovePage sets viewport_start to
\* min(viewport_start + window_height, line_count - 1) going forward and to
\* max(0, viewport_start - window_height) going backward, and sets the
\* redisplay flag.
C6_PageAsStated ==
    [][(pc = "run" /\ resolved.cmd = "MovePage") =>
          /\ editor'.start_line =
                IF resolved.increment > 0
                THEN Min(viewport_start + window_height, line_count - 1)
                ELSE Max(0, viewport_start - window_height)
          /\ editor'.redisplay]_vars

\* C6 amended: as stated, the forward bound being the last line index of
\* a buffer that has lines and 0 for a buffer without lines:
\* min(viewport_start + window_height, max(0, line_count - 1)).
C6_Page ==
    [][(pc = "run" /\ resolved.cmd = "MovePage") =>
          /\ editor'.start_line =
                IF resolved.increment > 0
                THEN Min(viewport_start + window_height, Max(0, line_count - 1))
                ELSE Max(0, viewport_start - window_height)
          /\ editor'.redisplay]_vars

\* C6 witness: a forward page was dispatched in a buffer of as many lines
\* as the window is high (so the viewport was at 0, the only reachable
\* multiple of the height): the viewport is clamped to the last line
\* index, not set to the line count.
C6_Witness ==
    /\ pc = "top"
    /\ cmd_str = "KEY_NPAGE"
    /\ editor.mode = "Command"
    /\ line_count = MaxLines
    /\ window_height = line_count
    /\ viewport_start = line_count - 1
    /\ editor.redisplay

\* C7 as stated: move_to_file_edge(true) sets viewport_start to
\* max(0, line_count - window_height) and row to
\* last_line_index - viewport_start, the last line index being
\* line_count - 1; move_to_file_edge(false) sets both to 0; both set the
\* redisplay flag.
C7_FileEdgeAsStated ==
    constructed =>
        \A to_end \in BOOLEAN :
            LET e == move_to_file_edge(editor, to_end)
            IN  /\ to_end =>
                     /\ e.start_line = Max(0, line_count - window_height)
                     /\ e.cursor[1] = (line_count - 1) - e.start_line
                /\ ~to_end => (e.start_line = 0 /\ e.cursor[1] = 0)
                /\ e.redisplay

\* C7 amended: as stated, the row being 0 when the buffer has no lines:
\* row = max(0, last_line_index - viewport_start).
C7_FileEdge ==
    constructed =>
        \A to_end \in BOOLEAN :
            LET e == move_to_file_edge(editor, to_end)
            IN  /\ to_end =>
                     /\ e.start_line = Max(0, line_count - window_height)
                     /\ e.cursor[1] = Max(0, (line_count - 1) - e.start_line)
                /\ ~to_end => (e.start_line = 0 /\ e.cursor[1] = 0)
                /\ e.redisplay

\* C7 witness: "G" was dispatched in a buffer of MaxLines lines shown in a
\* taller window: viewport_start is 0 and the row is the last line index.
C7_Witness ==
    /\ pc = "top"
    /\ cmd_str = "G"
    /\ editor.mode = "Command"
    /\ line_count = MaxLines
    /\ window_height > line_count
    /\ viewport_start = 0
    /\ row = line_count - 1
    /\ row > 0
    /\ editor.redisplay

\* C8  Missing file: whenever the path loaded last (at startup or by
\* OpenFile) does not exist, the current Buf is the one made for that path,
\* with exactly one empty line and modified = false.
C8_MissingFile ==
    (constructed /\ File_open(input) = "NotFound") =>
        LET b == get_current_buffer(editor.buffers)
        IN  /\ b.file_path = input
            /\ Len(b.lines) = 1
            /\ b.lines[1].data = <<>>
            /\ b.modified = FALSE

\* the startup half of C8, which the code keeps: main gives the editor a
\* Buf of one empty line when args[1] does not exist
C8_MissingFileAtStartup ==
    (pc = "top" /\ cmd_str = "" /\ File_open(input) = "NotFound") =>
        LET b == get_current_buffer(editor.buffers)
        IN  /\ b.file_path = input
            /\ Len(b.lines) = 1
            /\ b.lines[1].data = <<>>
            /\ b.modified = FALSE

\* the groups of symbols Editor::new registers together for one command
AliasGroups ==
    { {"j", "KEY_DOWN"}, {"k", "KEY_UP"}, {"l", "KEY_RIGHT"}, {"h", "KEY_LEFT"},
      {"^", "0", "KEY_HOME"}, {"$", "KEY_END"}, {" ", "KEY_NPAGE"} }

\* C9  Keymap aliasing: in every state from which the editor dispatches a
\* symbol, the symbols registered together for one command all lead run_cmd
\* to one and the same editor state (mode, cursor, viewport, flags,
\* registry).
C9_Aliasing ==
    pc = "run" =>
        \A g \in AliasGroups :
            Cardinality({run_cmd(editor, k, "") : k \in g}) = 1

\* C9 witness: the alias KEY_DOWN is about to be dispatched in Command
\* mode with the cursor on row 1, where it moves the cursor, and "j" leads
\* to the same editor.
C9_Witness ==
    /\ pc = "run"
    /\ cmd_str = "KEY_DOWN"
    /\ editor.mode = "Command"
    /\ row = 1
    /\ run_cmd(editor, "KEY_DOWN", "").cursor[1] = 2
    /\ run_cmd(editor, "j", "") = run_cmd(editor, "KEY_DOWN", "")

\* C10  Unbound input is a no-op: dispatching a symbol that the active
\* mode's keymap does not hold leaves the editor (mode, cursor, viewport,
\* flags, registry) as it was.
C10_UnboundNoOp ==
    [][(pc = "run" /\ resolved = None) =>
          (editor' = editor /\ input' = input /\ last_buf' = last_buf)]_vars

\* C10 witness: an unbound symbol was dispatched in Command mode after the
\* redisplay flag was cleared, and the flag is still clear.
C10_Witness ==
    /\ pc = "top"
    /\ cmd_str = "KEY_F(1)"
    /\ editor.mode = "Command"
    /\ ~editor.redisplay
    /\ ~editor.quit

\* C14 as stated: GapLine::new(capacity) allocates max(capacity, 16)
\* placeholder cells for every requested capacity, with gap_start = 0 and
\* gap_end = the capacity.
C14_NewAsStated ==
    lpc = "new" =>
        /\ Len(gl.buf) = Max(requested, 16)
        /\ \A i \in 1..Len(gl.buf) : gl.buf[i] = NUL
        /\ gl.gap_start = 0
        /\ gl.gap_end = Len(gl.buf)

\* C14 amended: GapLine::new(capacity) allocates 16 placeholder cells when
\* capacity is 0 and exactly capacity cells otherwise (also when
\* 0 < capacity < 16), with gap_start = 0 and gap_end = the allocated
\* capacity, so that the gap spans the whole buffer.
C14_New ==
    lpc = "new" =>
        /\ Len(gl.buf) = (IF requested = 0 THEN 16 ELSE requested)
        /\ \A i \in 1..Len(gl.buf) : gl.buf[i] = NUL
        /\ gl.gap_start = 0
        /\ gl.gap_end = Len(gl.buf)

\* C14 witness: new(2) has returned a line of two cells.
C14_Witness ==
    /\ lpc = "new"
    /\ requested = 2
    /\ Len(gl.buf) = 2
    /\ gl.gap_start = 0
    /\ gl.gap_end = 2

----------------------------------------------------------------------------
(* Properties of the dispatch loop, checked under Spec *)

UnchangedModeCmds ==
    {"Quit", "MovePoint", "MoveToLineEdge", "MoveToFileEdge", "MovePage",
     "ToggleLineNumbers"}

\* C11  Mode transitions on dispatch: Quit, MovePoint, MoveToLineEdge,
\* MoveToFileEdge, MovePage and ToggleLineNumbers leave the mode as it was,
\* OpenFile leaves the editor in Command mode (load succeeded or failed),
\* Search leaves it in Search mode, and a dispatch that changes the mode
\* leaves the redisplay flag set.
C11_ModeTransitions ==
    [][pc = "run" =>
          /\ resolved.cmd \in UnchangedModeCmds => editor'.mode = editor.mode
          /\ resolved.cmd = "OpenFile" => editor'.mode = "Command"
          /\ resolved.cmd = "Search" => editor'.mode = "Search"
          /\ editor'.mode # editor.mode => editor'.redisplay]_vars

\* C11 witness: "/" was dispatched: the mode changed to Search and the
\* redisplay flag is set.
C11_Witness ==
    /\ pc = "top"
    /\ cmd_str = "/"
    /\ editor.mode = "Search"
    /\ editor.redisplay

\* C12  Cooperative quit: once the quit flag is set, the only step the
\* process takes is the loop's test ending the loop (no symbol is read, no
\* command runs, the editor is left as it is and the flag stays set), and
\* the loop does end.
C12_CooperativeQuit ==
    /\ [][/\ editor.quit => (pc = "top" /\ pc' = "done" /\ editor' = editor)
          /\ editor'.quit => pc' \in {"top", "done"}]_vars
    /\ (editor.quit ~> pc = "done")

\* C12 witness: the loop has ended with the quit flag set.
C12_Witness ==
    /\ pc = "done"
    /\ editor.quit
    /\ editor.mode = "Command"

\* C13  OpenFile: when the load succeeds the new Buf is appended and is the
\* current one (one Buf more); when it fails the registry is as it was and
\* the loop goes on; either way the mode is Command and the redisplay flag
\* is set afterwards.
C13_OpenFile ==
    [][(pc = "run" /\ resolved.cmd = "OpenFile") =>
          LET loaded == Buf_from_path(input')
              before == editor.buffers.buffers
              after == editor'.buffers.buffers
          IN  /\ loaded.kind = "Ok" =>
                    /\ after = Append(before, loaded.buf)
                    /\ Len(after) = Len(before) + 1
                    /\ get_current_buffer(editor'.buffers) = loaded.buf
                    /\ editor'.buffers.current_idx = Len(after) - 1
              /\ loaded.kind # "Ok" =>
                    /\ editor'.buffers = editor.buffers
                    /\ ~editor'.quit
                    /\ pc' = "top"
              /\ editor'.mode = "Command"
              /\ editor'.redisplay]_vars

\* C13 witness: after one OpenFile that appended a Buf, an OpenFile of a
\* path that cannot be opened has left the two Bufs as they were.
C13_Witness ==
    /\ pc = "top"
    /\ cmd_str = "o"
    /\ input = "locked"
    /\ Len(editor.buffers.buffers) = 2
    /\ editor.buffers.current_idx = 1
    /\ editor.mode = "Command"
    /\ editor.redisplay
    /\ ~editor.quit

----------------------------------------------------------------------------
(* Properties of the cursor and the viewport, checked under Spec *)

\* the character count of line idx of the Buf bl selects, 0 if it has no
\* such line
line_len_at(bl, idx) ==
    LET lines == get_current_buffer(bl).lines
    IN  IF 0 <= idx /\ idx < Len(lines) THEN Len(lines[idx + 1].data) ELSE 0

\* C15  Column clamp of move_point: after a dispatched MovePoint(dy, dx)
\* the column is clamp(old column + dx, 0, L), L being the character count
\* of the line addressed after the row update (0 if there is none), so the
\* column lies in 0..L.
C15_ColumnClamp ==
    [][(pc = "run" /\ resolved.cmd = "MovePoint") =>
          LET L == line_len_at(editor'.buffers, editor'.start_line + editor'.cursor[1])
          IN  /\ editor'.cursor[2] = Min(Max(editor.cursor[2] + resolved.dx, 0), L)
              /\ 0 <= editor'.cursor[2]
              /\ editor'.cursor[2] <= L]_vars

\* C15 witness: "k" was dispatched and the cursor stands at the end of the
\* first line, which has one character, as it does after coming up from
\* column 2 of the second line.
C15_Witness ==
    /\ pc = "top"
    /\ cmd_str = "k"
    /\ editor.mode = "Command"
    /\ line_count = MaxLines
    /\ viewport_start = 0
    /\ row = 0
    /\ line_len_at(editor.buffers, 0) = 1
    /\ editor.cursor[2] = 1

\* C16  In every state of the editor the cursor addresses a line of the
\* current Buf: viewport_start + row and viewport_start are at most the
\* last line index.  Stated for Bufs that have a line.
C16_CursorOnLine ==
    (constructed /\ line_count >= 1) =>
        /\ viewport_start + row <= line_count - 1
        /\ viewport_start <= line_count - 1

\* the part of C16 that move_page and OpenFile leave standing for a Buf
\* that has a line and was never replaced: the viewport starts on a line
C16_ViewportOnLine ==
    (constructed /\ line_count >= 1 /\ Len(editor.buffers.buffers) = 1) =>
        viewport_start <= line_count - 1

\* C17  Search mode is absorbing: a step taken in Search mode leaves the
\* mode Search, a symbol dispatched in Search mode leaves the editor as it
\* is, and in Search mode the quit flag is never set and the loop never
\* ends.
C17_SearchAbsorbing ==
    [][/\ editor.mode = "Search" =>
             /\ editor'.mode = "Search"
             /\ pc = "run" => editor' = editor
       /\ editor'.mode = "Search" => (~editor'.quit /\ pc' # "done")]_vars

\* C17 witness: "q" was dispatched in Search mode and the quit flag is not
\* set.
C17_Witness ==
    /\ pc = "top"
    /\ cmd_str = "q"
    /\ editor.mode = "Search"
    /\ ~editor.quit

\* C18  Insert mode is unreachable: the mode is Command or Search in every
\* state.
C18_NoInsert == editor.mode \in {"Command", "Search"}

\* C18 witness: a command that sets the mode has run ("/") and symbols
\* were dispatched after it; the mode is Search.
C18_Witness ==
    /\ pc = "top"
    /\ cmd_str = "o"
    /\ editor.mode = "Search"

\* C19  With a window of at least one row and a current Buf of at least
\* one line, the cursor row lies in 0..window_height - 1 in every state.
C19_RowInWindow ==
    (constructed /\ window_height >= 1 /\ line_count >= 1) =>
        (0 <= row /\ row <= window_height - 1)

\* C19 witness: "j" was dispatched with the cursor on the last row of a
\* window shorter than the file: the row is still the last row.
C19_Witness ==
    /\ pc = "top"
    /\ cmd_str = "j"
    /\ window_height = 2
    /\ line_count > window_height
    /\ row = window_height - 1

\* C20  Whenever the loop blocks in parse_cmd, the redisplay flag is
\* false.
C20_ReadAfterRedraw == pc = "read" => ~editor.redisplay

\* C20 witness: the loop blocks in parse_cmd after ToggleLineNumbers, which
\* marked a redisplay, has run; the flag is clear.
C20_Witness ==
    /\ pc = "read"
    /\ editor.line_number_show
    /\ ~editor.redisplay

====
